---- MODULE Spec2Model ----
(***************************************************************************)
(* A model of copy_files.py: the resumable copy of a directory tree with a *)
(* persistent ledger of failed paths (prog_cache), the comparator, the     *)
(* path remapper, the enumerator and the retry loop of __main__.           *)
(*                                                                         *)
(* Paths are sequences of one-character strings, so that slicing, joining  *)
(* and glob matching are computed the way the code computes them.          *)
(***************************************************************************)
EXTENDS Integers, Sequences, FiniteSets, TLC

VARIABLES
    ATTEMPTS,      \* args.attempts
    compare,       \* args.compare
    shallow,       \* args.shallow
    exclude,       \* args.exclude (after the insert of line 289)
    prog_cache,    \* the ledger: source path -> record or None
    fs,            \* the destination tree: destination path -> entry
    pc,            \* where __main__ is
    src_ls,        \* cp_ls: its first argument
    dst_ls,        \* cp_ls: its second argument
    idx,           \* cp_ls: pairs processed so far
    errs,          \* cp_ls: the failure list
    notes,         \* the notifications cp_ls has yielded in this call
    old_dir_list,  \* __main__, line 305
    old_file_list, \* __main__, line 305
    new_dir_list,  \* __main__, line 308
    new_file_list, \* __main__, line 308
    old_list,      \* __main__: the list handed to check_meta_ls
    new_list,      \* __main__: the list handed to check_meta_ls
    last,          \* what the last processed pair did (observation)
    hist,          \* per source path: observations across steps
    run,           \* per run: observations of this run
    rm,            \* the remapper's inputs and outputs (RemapSpec)
    call           \* ls_dir or cmp called on its own: arguments and results

vars == <<ATTEMPTS, compare, shallow, exclude, prog_cache, fs, pc, src_ls, dst_ls,
          idx, errs, notes, old_dir_list, old_file_list, new_dir_list, new_file_list,
              old_list, new_list, last, hist, run, rm, call>>

mainVars == <<ATTEMPTS, compare, shallow, exclude, prog_cache, fs, pc, src_ls, dst_ls,
              idx, errs, notes, old_dir_list, old_file_list, new_dir_list, new_file_list,
              old_list, new_list, last, hist, run>>

\* Bounds of the model.
MaxCap == 3
MaxRuns == 2
MaxPaths == 2
MaxPats == 2
MaxLimit == 4

\* prog_cache.get(key) for a key without a record (no record holds 0 attempts)
None == [src |-> <<>>, dst |-> <<>>, attempts |-> 0]

----------------------------------------------------------------------------
\* Sequences helpers

Front(s) == SubSeq(s, 1, Len(s) - 1)

startswith(s, c) == Len(s) > 0 /\ s[1] = c

endswith(s, c) == Len(s) > 0 /\ s[Len(s)] = c

\* s[n:] of Python, n >= 0
SliceFrom(s, n) == SubSeq(s, n + 1, Len(s))

Range(s) == {s[i] : i \in 1..Len(s)}

\* F(x), with x computed once
Bind(x, F(_)) == CHOOSE r \in {F(y) : y \in {x}} : TRUE

\* list.remove(x): the list without the first occurrence of x (x is in the list)
ListRemove(s, x) ==
    LET i == CHOOSE k \in 1..Len(s) : s[k] = x /\ \A j \in 1..(k - 1) : s[j] # x
    IN SubSeq(s, 1, i - 1) \o SubSeq(s, i + 1, Len(s))

----------------------------------------------------------------------------
\* os.path

\* posixpath.join(a, b)
join(a, b) ==
    IF startswith(b, "/") THEN b
    ELSE IF a = <<>> \/ endswith(a, "/") THEN a \o b
    ELSE a \o <<"/">> \o b

RECURSIVE LastSlash(_, _)
LastSlash(p, i) == IF i = 0 THEN 0 ELSE IF p[i] = "/" THEN i ELSE LastSlash(p, i - 1)

RECURSIVE rstrip(_)
\* head.rstrip('/')
rstrip(s) == IF endswith(s, "/") THEN rstrip(Front(s)) ELSE s

\* posixpath.dirname(p)
dirname(p) ==
    LET head == SubSeq(p, 1, LastSlash(p, Len(p)))
    IN IF head # <<>> /\ rstrip(head) # <<>> THEN rstrip(head) ELSE head

----------------------------------------------------------------------------
\* change_parent (lines 195-208)

\* line 206
strip_sep(stripped_path) ==
    IF ~startswith(stripped_path, "/") THEN stripped_path ELSE Tail(stripped_path)

\* lines 200-201: isinstance(paths, str)
change_parent_str(old, new, paths) == join(new, SliceFrom(paths, Len(old)))

\* lines 203-208
change_parent_ls(old, new, paths) ==
    [i \in 1..Len(paths) |-> join(new, strip_sep(SliceFrom(paths[i], Len(old))))]

\* is_str tells a str from a list: both are sequences here
change_parent(old, new, paths, is_str) ==
    IF is_str THEN change_parent_str(old, new, paths) ELSE change_parent_ls(old, new, paths)

----------------------------------------------------------------------------
\* fnmatch.fnmatchcase(path, pat), for patterns of literal characters, * and ?

RECURSIVE fnmatchcase(_, _)
fnmatchcase(path, pat) ==
    IF pat = <<>> THEN path = <<>>
    ELSE IF Head(pat) = "*"
         THEN fnmatchcase(path, Tail(pat)) \/ (path # <<>> /\ fnmatchcase(Tail(path), pat))
    ELSE IF Head(pat) = "?"
         THEN path # <<>> /\ fnmatchcase(Tail(path), Tail(pat))
    ELSE path # <<>> /\ Head(path) = Head(pat) /\ fnmatchcase(Tail(path), Tail(pat))

\* lines 184-192
exclude_path(path, exclusions) ==
    \E i \in 1..Len(exclusions) : fnmatchcase(path, exclusions[i])

----------------------------------------------------------------------------
\* The source tree and what os.walk yields for it (line 171)

SRC == <<"/", "s">>
DST == <<"/", "t">>

PD == <<"/", "s", "/", "d">>            \* a directory
PF == <<"/", "s", "/", "d", "/", "f">>  \* a regular file, inside the directory
PK == <<"/", "s", "/", "k">>            \* a symlink to a directory outside the tree

SrcPaths == {PD, PF, PK}

\* iterkeys() yields the keys in the database's sort order
KeyOrder == <<PD, PF, PK>>

\* os.walk(SRC): top-down, symlinked directories listed among dirs and not entered
os_walk(top) ==
    IF top = SRC
    THEN << [root |-> SRC, dirs |-> << <<"d">>, <<"k">> >>, files |-> <<>>],
            [root |-> PD, dirs |-> <<>>, files |-> << <<"f">> >>] >>
    ELSE <<>>

\* An entry as os.stat/os.lstat/os.readlink see it:
\*   kind  what lstat reports: none, file, dir or link
\*   res   what stat reports after following links: none (absent or dangling), file, dir
\*   tgt   the link's target string (0: the string the source link holds)
\*   data  the content of the file, or the part of a directory listing not modelled
\*         by paths (0: the source's; 1: other content of the same size; 2: other
\*         content of another size)
\*   mt    the minimal attribute set, modification time included (0: the source's)
E(k, r, t, d, m) == [kind |-> k, res |-> r, tgt |-> t, data |-> d, mt |-> m]

NoEntry == E("none", "none", 0, 0, 0)

srcEntry(p) ==
    CASE p = PF -> E("file", "file", 0, 0, 0)
      [] p = PD -> E("dir", "dir", 0, 0, 0)
      [] p = PK -> E("link", "dir", 0, 0, 0)
      [] OTHER -> NoEntry

DstOf(p) == change_parent(SRC, DST, <<p>>, FALSE)[1]

DstPaths == {DstOf(p) : p \in SrcPaths}

\* the name under which os.listdir reports an entry
Names == {<<"f">>, <<"d">>, <<"k">>}

----------------------------------------------------------------------------
\* ls_dir (lines 152-181)

RECURSIVE check_exclusions(_, _, _, _)
\* lines 155-165: res_ls extended by the entries of ls that are not excluded
check_exclusions(root, ls, res_ls, exclusions) ==
    IF ls = <<>> THEN res_ls
    ELSE LET p == join(root, Head(ls))
         IN check_exclusions(root, Tail(ls),
                IF exclude_path(p, exclusions) THEN res_ls ELSE Append(res_ls, p),
                exclusions)

RECURSIVE ls_dir_loop(_, _, _, _)
\* lines 171-179
ls_dir_loop(walk, dirs_result, files_result, exclusions) ==
    IF walk = <<>> THEN <<dirs_result, files_result>>
    ELSE LET w == Head(walk)
         IN IF exclude_path(w.root, exclusions)
            THEN ls_dir_loop(Tail(walk), dirs_result, files_result, exclusions)
            ELSE ls_dir_loop(Tail(walk),
                     check_exclusions(w.root, w.dirs, dirs_result, exclusions),
                     check_exclusions(w.root, w.files, files_result, exclusions),
                     exclusions)

ls_dir(dir_path, exclusions) == ls_dir_loop(os_walk(dir_path), <<>>, <<>>, exclusions)

----------------------------------------------------------------------------
\* The file system as the os.path functions see it. g is the destination tree;
\* the source tree does not change.

stat(g, p) == IF p \in DOMAIN g THEN g[p] ELSE srcEntry(p)

exists(e) == e.res # "none"      \* os.path.exists: follows links
islink(e) == e.kind = "link"     \* os.path.islink
isfile(e) == e.res = "file"      \* os.path.isfile: follows links
isdir(e) == e.res = "dir"        \* os.path.isdir: follows links

\* st_size as a function of the content
Size(e) == IF e.data = 2 THEN 1 ELSE 0

\* the mutant of filecmp: a shallow comparison accepts an older first file
filecmp_older(x, y, shallow_) ==
    IF shallow_ /\ Size(x) = Size(y) /\ x.mt <= y.mt THEN TRUE
    ELSE IF Size(x) # Size(y) THEN FALSE
    ELSE x.data = y.data

\* filecmp.cmp(a, b, shallow) on two regular files: equal signatures (size, mtime)
\* settle a shallow comparison, different sizes settle any, else the bytes decide
filecmp(x, y, shallow_) ==
    IF shallow_ /\ Size(x) = Size(y) /\ x.mt = y.mt THEN TRUE
    ELSE IF Size(x) # Size(y) THEN FALSE
    ELSE x.data = y.data

\* os.listdir of the modelled names
listdir(g, p) == {n \in Names : stat(g, join(p, n)).kind # "none"}

\* lines 91-92: filecmp.dircmp(a, b) reports nothing in left_only, right_only, diff_files
dircmp_same(g, a, b) ==
    LET left_only == listdir(g, a) \ listdir(g, b)
        right_only == listdir(g, b) \ listdir(g, a)
        common_files == {n \in listdir(g, a) \cap listdir(g, b) :
                            isfile(stat(g, join(a, n))) /\ isfile(stat(g, join(b, n)))}
        diff_files == {n \in common_files :
                            ~filecmp(stat(g, join(a, n)), stat(g, join(b, n)), TRUE)}
    IN left_only = {} /\ right_only = {} /\ diff_files = {}
       /\ stat(g, a).data = stat(g, b).data

\* lines 82-84
cmp_links(x, y) == x.tgt = y.tgt

\* the mutant of cmp: nothing is ever found equivalent
cmp_never(g, src, dst, shallow_) == FALSE

\* the mutant of cmp: a link is never taken for what it points to
cmp_strict(g, src, dst, shallow_) ==
    LET x == stat(g, src)
        y == stat(g, dst)
    IN IF islink(x) /\ islink(y) THEN cmp_links(x, y)
       ELSE IF islink(x) \/ islink(y) THEN FALSE
       ELSE IF isfile(x) /\ isfile(y) THEN filecmp(x, y, shallow_)
       ELSE IF isdir(x) /\ isdir(y) THEN dircmp_same(g, src, dst)
       ELSE FALSE

\* lines 79-94
cmp(g, src, dst, shallow_) ==
    LET x == stat(g, src)
        y == stat(g, dst)
    IN IF islink(x) /\ islink(y) THEN cmp_links(x, y)
       ELSE IF isfile(x) /\ isfile(y) THEN filecmp(x, y, shallow_)
       ELSE IF isdir(x) /\ isdir(y) THEN dircmp_same(g, src, dst)
       ELSE FALSE

\* os.unlink(p)
unlink(g, p) == [g EXCEPT ![p] = NoEntry]

RECURSIVE can_makedirs(_, _)
\* os.makedirs(p, exist_ok=True) does not raise: p is a directory, or is absent
\* under something that is or can be made one. DST itself exists.
can_makedirs(g, p) ==
    IF p \notin DOMAIN g THEN TRUE
    ELSE IF isdir(g[p]) THEN TRUE
    ELSE IF g[p].kind = "none" THEN can_makedirs(g, dirname(p))
    ELSE FALSE

\* the new directory is empty: its listing is the source's only when the source
\* directory holds nothing but modelled paths (PK resolves to a directory that does)
NewDir(p) == E("dir", "dir", 0, IF p = DstOf(PK) THEN 1 ELSE 0, 1)

RECURSIVE makedirs(_, _)
\* os.makedirs(p, exist_ok=True), when can_makedirs
makedirs(g, p) ==
    IF p \notin DOMAIN g \/ g[p].kind # "none" THEN g
    ELSE [makedirs(g, dirname(p)) EXCEPT ![p] = NewDir(p)]

\* os.path.basename(p)
basename(p) == SliceFrom(p, LastSlash(p, Len(p)))

\* lines 25-28: /bin/cp -Rpn src dirname(dst): the entry is copied as it is (a link
\* as a link, the times kept) under the source's name, and nothing is overwritten
cp(g, src, dst) ==
    LET t == join(dirname(dst), basename(src))
    IN IF t \in DOMAIN g /\ g[t].kind = "none" THEN [g EXCEPT ![t] = srcEntry(src)] ELSE g

\* lines 31-67: clone_attrs(src, dst, follow_symlinks, limit) when it returns.
\* took: the destination's attributes read back as the source's within the limit.
\* Without follow_symlinks the link's own times are copied: nothing stat sees.
clone_attrs(g, src, dst, follow_symlinks, took) ==
    IF follow_symlinks /\ dst \in DOMAIN g /\ g[dst].mt # stat(g, src).mt /\ took
    THEN [g EXCEPT ![dst].mt = stat(g, src).mt]
    ELSE g

----------------------------------------------------------------------------
\* The ledger: diskcache.Cache

cache_get(cache, key) == IF key \in DOMAIN cache THEN cache[key] ELSE None

cache_set(cache, key, value) == [cache EXCEPT ![key] = value]

cache_delete(cache, key) == [cache EXCEPT ![key] = None]

\* line 300
cache_clear(cache) == [k \in DOMAIN cache |-> None]

RECURSIVE iterkeys_from(_, _)
iterkeys_from(cache, order) ==
    IF order = <<>> THEN <<>>
    ELSE (IF cache[Head(order)] # None THEN <<Head(order)>> ELSE <<>>)
         \o iterkeys_from(cache, Tail(order))

\* prog_cache.iterkeys()
iterkeys(cache) == iterkeys_from(cache, KeyOrder)

----------------------------------------------------------------------------
\* cp_ls (lines 97-149): the processing of one pair

\* What the environment does to the pair: nothing, or the operation that raises
\* (the first one reached), or an attribute clone that never reads back.
Envs == {"none", "get", "cmp1", "cmp2", "unlink", "makedirs", "cp",
         "clone", "clone_stuck", "delete"}

\* the mutant of at_limit: the limit is reached only when exceeded
at_limit_off_by_one(prev_err, cap) == prev_err.attempts > cap

\* line 113
at_limit(prev_err, cap) == prev_err.attempts >= cap

\* the mutant of except_handler: a record below the limit is rewritten as it was
except_handler_no_incr(cache, prev_err, src, dst, cap) ==
    IF prev_err = None
    THEN cache_set(cache, src, [src |-> src, dst |-> dst, attempts |-> 1])
    ELSE IF prev_err.attempts < cap
    THEN cache_set(cache, src, prev_err)
    ELSE cache

\* the mutant of except_handler: the second failure after the first starts over
except_handler_restart(cache, prev_err, src, dst, cap) ==
    IF prev_err = None \/ prev_err.attempts >= 2
    THEN cache_set(cache, src, [src |-> src, dst |-> dst, attempts |-> 1])
    ELSE IF prev_err.attempts < cap
    THEN cache_set(cache, src, [prev_err EXCEPT !.attempts = @ + 1])
    ELSE cache

\* lines 139-144
except_handler(cache, prev_err, src, dst, cap) ==
    IF prev_err = None
    THEN cache_set(cache, src, [src |-> src, dst |-> dst, attempts |-> 1])
    ELSE IF prev_err.attempts < cap
    THEN cache_set(cache, src, [prev_err EXCEPT !.attempts = @ + 1])
    ELSE cache

\* The outcome of one pair: the ledger and the tree after it, how it ended
\* (skip: line 116; ok: line 123 or 137; raise: lines 138-146) and what it did:
\*   cp   /bin/cp was invoked          cl  clone_attrs: "no", "raised", "returned"
\*   un   the destination was deleted  mk  created: "none", "dir", "cp"
\*   ff   line 117 found the pair copied despite its record
Res(c, h, out, cp_, cl, un, mk, ff) ==
    [cache |-> c, fs |-> h, out |-> out, cp |-> cp_, cl |-> cl, un |-> un, mk |-> mk,
     ff |-> ff]

\* the mutant of finish: the record is left in the ledger on success
finish_keeps_record(cache, h, prev_err, src, dst, cap, env, cp_, un, mk, ff) ==
    IF env = "clone"
    THEN Res(except_handler(cache, prev_err, src, dst, cap), h, "raise",
             cp_, "raised", un, mk, ff)
    ELSE Bind(clone_attrs(h, src, dst, ~islink(stat(h, dst)), env # "clone_stuck"),
              LAMBDA h2 :
                 IF env = "delete"
                 THEN Res(except_handler(cache, prev_err, src, dst, cap), h2, "raise",
                          cp_, "returned", un, mk, ff)
                 ELSE Res(cache, h2, "ok", cp_, "returned", un, mk, ff))

\* the mutant of finish: the record is deleted although clone_attrs raised
finish_ignores_clone(cache, h, prev_err, src, dst, cap, env, cp_, un, mk, ff) ==
    IF env = "clone"
    THEN Res(cache_delete(cache, src), h, "ok", cp_, "raised", un, mk, ff)
    ELSE Bind(clone_attrs(h, src, dst, ~islink(stat(h, dst)), env # "clone_stuck"),
              LAMBDA h2 :
                 IF env = "delete"
                 THEN Res(except_handler(cache, prev_err, src, dst, cap), h2, "raise",
                          cp_, "returned", un, mk, ff)
                 ELSE Res(cache_delete(cache, src), h2, "ok", cp_, "returned", un, mk, ff))

\* lines 136-137 and 121-122: clone_attrs, then prog_cache.delete
finish(cache, h, prev_err, src, dst, cap, env, cp_, un, mk, ff) ==
    IF env = "clone"
    THEN Res(except_handler(cache, prev_err, src, dst, cap), h, "raise",
             cp_, "raised", un, mk, ff)
    ELSE Bind(clone_attrs(h, src, dst, ~islink(stat(h, dst)), env # "clone_stuck"),
              LAMBDA h2 :
                 IF env = "delete"
                 THEN Res(except_handler(cache, prev_err, src, dst, cap), h2, "raise",
                          cp_, "returned", un, mk, ff)
                 ELSE Res(cache_delete(cache, src), h2, "ok", cp_, "returned", un, mk, ff))

\* lines 138-146 for an exception raised before clone_attrs
raised(cache, h, prev_err, src, dst, cap, cp_, un, mk) ==
    Res(except_handler(cache, prev_err, src, dst, cap), h, "raise", cp_, "no", un, mk, FALSE)

\* lines 129-135
create(cache, g1, prev_err, src, dst, cap, env, un) ==
    IF isdir(stat(g1, src))
    THEN IF env = "makedirs" \/ ~can_makedirs(g1, dst)
         THEN raised(cache, g1, prev_err, src, dst, cap, FALSE, un, "none")
         ELSE Bind(makedirs(g1, dst),
                   LAMBDA g2 : finish(cache, g2, prev_err, src, dst, cap, env,
                                      FALSE, un, "dir", FALSE))
    ELSE IF env = "makedirs" \/ ~can_makedirs(g1, dirname(dst))
         THEN raised(cache, g1, prev_err, src, dst, cap, FALSE, un, "none")
         ELSE Bind(makedirs(g1, dirname(dst)),
                   LAMBDA g2 :
                      IF env = "cp"
                      THEN raised(cache, g2, prev_err, src, dst, cap, TRUE, un, "none")
                      ELSE Bind(cp(g2, src, dst),
                                LAMBDA g3 : finish(cache, g3, prev_err, src, dst, cap, env,
                                                   TRUE, un, "cp", FALSE)))

\* the mutant of absent: every destination counts as absent
absent_always(e) == TRUE

\* line 129: not os.path.exists(dst) and not os.path.islink(dst)
absent(e) == ~exists(e) /\ ~islink(e)

\* the mutant of comparable: the comparison flag is not consulted
comparable_always(e, cmp_on) == isfile(e) \/ islink(e)

\* lines 125-126: the destination is one that is compared with the source
comparable(e, cmp_on) == (isfile(e) \/ islink(e)) /\ cmp_on

\* lines 125-137
copy_pair(cache, g, prev_err, src, dst, cap, cmp_on, shallow_, env) ==
    LET d0 == stat(g, dst)
        compared == comparable(d0, cmp_on)
    IN IF compared /\ env = "cmp2"
       THEN raised(cache, g, prev_err, src, dst, cap, FALSE, FALSE, "none")
       ELSE Bind(compared /\ ~cmp(g, src, dst, shallow_),
                 LAMBDA failed_cmp :
                    IF failed_cmp /\ env = "unlink"
                    THEN raised(cache, g, prev_err, src, dst, cap, FALSE, FALSE, "none")
                    ELSE Bind(IF failed_cmp THEN unlink(g, dst) ELSE g,
                              LAMBDA g1 :
                                 IF absent(stat(g1, dst))
                                 THEN create(cache, g1, prev_err, src, dst, cap, env,
                                             failed_cmp)
                                 ELSE finish(cache, g1, prev_err, src, dst, cap, env,
                                             FALSE, failed_cmp, "none", FALSE)))

\* line 146
append_err(errs_, src, out) == IF out = "raise" THEN Append(errs_, src) ELSE errs_

\* line 149: the notification (raised records, beside it, how the pair ended)
yielded(notes_, i, errs_, out) ==
    Append(notes_, [idx |-> i, errs |-> errs_, raised |-> out = "raise"])

\* lines 109-146, after the lookup of line 107 returned prev_err
cp_ls_pair(cache, g, src, dst, cap, cmp_on, shallow_, env) ==
    LET prev_err == cache_get(cache, src)
    IN IF prev_err # None /\ at_limit(prev_err, cap)
       THEN Res(cache, g, "skip", FALSE, "no", FALSE, "none", FALSE)
       ELSE IF prev_err # None /\ env = "cmp1"
       THEN raised(cache, g, prev_err, src, dst, cap, FALSE, FALSE, "none")
       ELSE IF prev_err # None /\ cmp(g, src, dst, FALSE)
       THEN finish(cache, g, prev_err, src, dst, cap, env, FALSE, FALSE, "none", TRUE)
       ELSE copy_pair(cache, g, prev_err, src, dst, cap, cmp_on, shallow_, env)

----------------------------------------------------------------------------
\* __main__ (lines 267-348)

\* line 16 and line 289: the pattern that keeps the progress files out
PROG_PAT == <<"*", ".cp_progress", "*">>

\* -e: no pattern, or one that matches the symlink
ExcludeArgs == { <<>>, << <<"*", "/", "k">> >> }

CapArgs == 1..MaxCap

\* line 326
combined_errs(cache) ==
    Bind(iterkeys(cache), LAMBDA keys : [i \in 1..Len(keys) |-> cache_get(cache, keys[i])])

\* the mutant of under_limit: a record one attempt short of the limit is given up
under_limit_early(d, cap) == d.attempts < cap - 1

\* lines 328-329: if d['attempts'] < ATTEMPTS
under_limit(d, cap) == d.attempts < cap

RECURSIVE src_retries(_, _)
\* line 328
src_retries(combined, cap) ==
    IF combined = <<>> THEN <<>>
    ELSE (IF under_limit(Head(combined), cap) THEN <<Head(combined).src>> ELSE <<>>)
         \o src_retries(Tail(combined), cap)

RECURSIVE dst_retries(_, _)
\* line 329
dst_retries(combined, cap) ==
    IF combined = <<>> THEN <<>>
    ELSE (IF under_limit(Head(combined), cap) THEN <<Head(combined).dst>> ELSE <<>>)
         \o dst_retries(Tail(combined), cap)

RECURSIVE filter_loop(_, _, _, _)
\* lines 339-342: ok is FALSE when a remove raises ValueError
filter_loop(keys, cache, old, new) ==
    IF keys = <<>> THEN [ok |-> TRUE, old |-> old, new |-> new]
    ELSE LET err == cache_get(cache, Head(keys))
         IN IF err.src \notin Range(old) THEN [ok |-> FALSE, old |-> old, new |-> new]
            ELSE IF err.dst \notin Range(new)
            THEN [ok |-> FALSE, old |-> ListRemove(old, err.src), new |-> new]
            ELSE Bind(ListRemove(old, err.src),
                      LAMBDA old2 :
                         Bind(ListRemove(new, err.dst),
                              LAMBDA new2 : filter_loop(Tail(keys), cache, old2, new2)))

\* the mutant of filter_lists: the destinations are concatenated the other way
filter_lists_swapped(cache, old_files, old_dirs, new_files, new_dirs) ==
    filter_loop(iterkeys(cache), cache, old_files \o old_dirs, new_dirs \o new_files)

\* lines 337-342
filter_lists(cache, old_files, old_dirs, new_files, new_dirs) ==
    filter_loop(iterkeys(cache), cache, old_files \o old_dirs, new_files \o new_dirs)

\* The destination trees a first run may find: nothing; the directory in place of
\* the symlink and a file of the source's size and times with other content; a
\* file in the place of the directory
InitFs ==
    { [p \in DstPaths |-> NoEntry],
      [p \in DstPaths |->
          IF p = DstOf(PD) THEN E("dir", "dir", 0, 0, 0)
          ELSE IF p = DstOf(PF) THEN E("file", "file", 0, 1, 0)
          ELSE E("link", "dir", 1, 1, 1)],
      [p \in DstPaths |-> IF p = DstOf(PD) THEN E("file", "file", 0, 1, 1) ELSE NoEntry] }

\* -c and -s
CmpArgs == {<<FALSE, FALSE>>, <<TRUE, FALSE>>, <<TRUE, TRUE>>}

NoLast ==
    [src |-> <<>>, dst |-> <<>>, out |-> "none", cp |-> FALSE, cl |-> "no", un |-> FALSE,
     mk |-> "none", ff |-> FALSE, pre |-> None, dpre |-> NoEntry]

\* What is observed of a run: its number, the passes of the retry loop, and
\*   clean   it found an empty ledger, and no pair has raised so far
\*   bare    it found an empty destination
\*   cps     how often /bin/cp was invoked on each source (counted while clean)
NoRun(n, idem) ==
    [n |-> n, idem |-> idem, passes |-> 0,
     delAt |-> [p \in SrcPaths |-> 0],
     clean |-> FALSE, bare |-> FALSE, cps |-> [p \in SrcPaths |-> 0]]

\* the run as it starts on the ledger cache and the destination tree g
NewRun(n, idem, cache, g) ==
    [NoRun(n, idem) EXCEPT !.clean = \A p \in SrcPaths : cache[p] = None,
                           !.bare = \A p \in DstPaths : g[p] = NoEntry]

\* no function is called on its own
NoCall == [fn |-> "none"]

\* the remapper at rest: no input, no output
NoRm == [old |-> <<>>, new |-> <<>>, paths |-> <<>>, one |-> <<>>, ls |-> <<>>,
         str_done |-> FALSE, ls_done |-> FALSE]

\* lines 305-312: the enumeration, the remapped lists, and the first call of cp_ls
Enumerate(ex) ==
    \E ls \in {ls_dir(SRC, ex)} :
    \E new_dirs \in {change_parent(SRC, DST, ls[1], FALSE)} :
    \E new_files \in {change_parent(SRC, DST, ls[2], FALSE)} :
        /\ exclude' = ex
        /\ old_dir_list' = ls[1]
        /\ old_file_list' = ls[2]
        /\ new_dir_list' = new_dirs
        /\ new_file_list' = new_files
        /\ src_ls' = ls[2]
        /\ dst_ls' = new_files

\* lines 284-312: the arguments, the ledger, the enumeration, and the first call
Begin(cap, cmp_on, shallow_, ex, cache, g, n, idem) ==
    /\ ATTEMPTS' = cap
    /\ compare' = cmp_on
    /\ shallow' = shallow_
    /\ Enumerate(<<PROG_PAT>> \o ex)
    /\ prog_cache' = cache
    /\ fs' = g
    /\ pc' = "files"
    /\ idx' = 0
    /\ errs' = <<>>
    /\ notes' = <<>>
    /\ old_list' = <<>>
    /\ new_list' = <<>>
    /\ last' = NoLast
    /\ run' = NewRun(n, idem, cache, g)

\* lines 267-312 of a first run: the arguments, the ledger the run finds, the
\* destination tree, the enumeration, and the first call of cp_ls
Started(caps, cmps, exs, caches, trees) ==
    /\ \E cap \in caps, cs \in cmps, g \in trees :
          /\ ATTEMPTS = cap
          /\ compare = cs[1]
          /\ shallow = cs[2]
          /\ fs = g
    /\ \E ex \in exs :
       \E ls \in {ls_dir(SRC, <<PROG_PAT>> \o ex)} :
          /\ exclude = <<PROG_PAT>> \o ex
          /\ old_dir_list = ls[1]
          /\ old_file_list = ls[2]
          /\ new_dir_list = change_parent(SRC, DST, ls[1], FALSE)
          /\ new_file_list = change_parent(SRC, DST, ls[2], FALSE)
          /\ src_ls = ls[2]
          /\ dst_ls = change_parent(SRC, DST, ls[2], FALSE)
    /\ \E cache \in caches :
          /\ prog_cache = cache
          /\ hist = [fails |-> [p \in SrcPaths |-> cache[p].attempts]]
    /\ pc = "files"
    /\ idx = 0
    /\ errs = <<>>
    /\ notes = <<>>
    /\ old_list = <<>>
    /\ new_list = <<>>
    /\ last = NoLast
    /\ run = NewRun(1, FALSE, prog_cache, fs)
    /\ rm = NoRm
    /\ call = NoCall

\* the first run finds no ledger
Init == Started(CapArgs, CmpArgs, ExcludeArgs, {[p \in SrcPaths |-> None]}, InitFs)

\* the pairs zip(src_ls, dst_ls) yields
NPairs == IF Len(src_ls) < Len(dst_ls) THEN Len(src_ls) ELSE Len(dst_ls)

InCpLs == pc \in {"files", "dirs", "retry"}

\* lines 106-149: one pair, from the lookup to the yield
CpLsStep ==
    /\ InCpLs
    /\ idx < NPairs
    /\ \E env \in Envs \ {"get"} :
       \E r \in {cp_ls_pair(prog_cache, fs, src_ls[idx + 1], dst_ls[idx + 1],
                            ATTEMPTS, compare, shallow, env)} :
         LET src == src_ls[idx + 1]
             dst == dst_ls[idx + 1]
             pre == cache_get(prog_cache, src)
             errs2 == append_err(errs, src, r.out)
         IN /\ prog_cache' = r.cache
            /\ fs' = r.fs
            /\ errs' = errs2
            /\ idx' = idx + 1
            /\ notes' = yielded(notes, idx + 1, errs2, r.out)
            /\ last' = [src |-> src, dst |-> dst, out |-> r.out, cp |-> r.cp, cl |-> r.cl,
                        un |-> r.un, mk |-> r.mk, ff |-> r.ff, pre |-> pre,
                        dpre |-> stat(fs, dst)]
            /\ hist' = [hist EXCEPT !.fails[src] =
                           IF r.out = "raise" THEN (IF pre = None THEN 1 ELSE @ + 1)
                           ELSE IF r.out = "ok" THEN 0 ELSE @]
            /\ run' = [run EXCEPT !.delAt[src] = IF pre # None /\ r.cache[src] = None
                                                 THEN pre.attempts ELSE @,
                                  !.clean = @ /\ r.out # "raise",
                                  !.cps = IF run.clean /\ r.out # "raise"
                                          THEN [@ EXCEPT ![src] = IF r.cp THEN @ + 1 ELSE @]
                                          ELSE [p \in SrcPaths |-> 0]]
    /\ UNCHANGED <<ATTEMPTS, compare, shallow, exclude, pc, src_ls, dst_ls,
                   old_dir_list, old_file_list, new_dir_list, new_file_list,
                   old_list, new_list, rm, call>>

\* line 107 raises: outside the try, so the exception leaves cp_ls and ends the run
LookupFails ==
    /\ InCpLs
    /\ idx < NPairs
    /\ pc' = "crashed"
    /\ last' = [NoLast EXCEPT !.src = src_ls[idx + 1], !.dst = dst_ls[idx + 1],
                              !.out = "crash", !.pre = cache_get(prog_cache, src_ls[idx + 1]),
                              !.dpre = stat(fs, dst_ls[idx + 1])]
    /\ UNCHANGED <<ATTEMPTS, compare, shallow, exclude, prog_cache, fs, src_ls, dst_ls,
                   idx, errs, notes, old_dir_list, old_file_list, new_dir_list,
                   new_file_list, old_list, new_list, hist, run, rm, call>>

\* lines 312-317: the file pass is over, the directory pass starts
FilesDone ==
    /\ pc = "files"
    /\ idx = NPairs
    /\ pc' = "dirs"
    /\ src_ls' = old_dir_list
    /\ dst_ls' = new_dir_list
    /\ idx' = 0
    /\ errs' = <<>>
    /\ notes' = <<>>
    /\ UNCHANGED <<ATTEMPTS, compare, shallow, exclude, prog_cache, fs,
                   old_dir_list, old_file_list, new_dir_list, new_file_list,
                   old_list, new_list, last, hist, run, rm, call>>

\* lines 326-332: what the next pass of the retry loop is given
LoadRetries ==
    /\ pc' = "retry"
    /\ \E combined \in {combined_errs(prog_cache)} :
          /\ src_ls' = src_retries(combined, ATTEMPTS)
          /\ dst_ls' = dst_retries(combined, ATTEMPTS)
    /\ idx' = 0
    /\ errs' = <<>>
    /\ notes' = <<>>
    /\ run' = [run EXCEPT !.passes = @ + 1]
    /\ UNCHANGED <<ATTEMPTS, compare, shallow, exclude, prog_cache, fs,
                   old_dir_list, old_file_list, new_dir_list, new_file_list,
                   old_list, new_list, last, hist, rm, call>>

\* lines 317-332: the directory pass is over, the retry loop starts
DirsDone ==
    /\ pc = "dirs"
    /\ idx = NPairs
    /\ LoadRetries

\* lines 332 and 324-331: copy_with_progress returned failures, so the loop goes on
RetryAgain ==
    /\ pc = "retry"
    /\ idx = NPairs
    /\ errs # <<>>
    /\ LoadRetries

\* lines 332-334: copy_with_progress returned no failure: break
RetryBreak ==
    /\ pc = "retry"
    /\ idx = NPairs
    /\ errs = <<>>
    /\ pc' = "filter"
    /\ UNCHANGED <<ATTEMPTS, compare, shallow, exclude, prog_cache, fs, src_ls, dst_ls,
                   idx, errs, notes, old_dir_list, old_file_list, new_dir_list,
                   new_file_list, old_list, new_list, last, hist, run, rm, call>>

\* lines 337-345: the lists for the metadata pass, or the ValueError of a remove
FilterLists ==
    /\ pc = "filter"
    /\ \E r \in {filter_lists(prog_cache, old_file_list, old_dir_list,
                              new_file_list, new_dir_list)} :
          /\ pc' = IF r.ok THEN "meta" ELSE "value_error"
          /\ old_list' = r.old
          /\ new_list' = r.new
    /\ UNCHANGED <<ATTEMPTS, compare, shallow, exclude, prog_cache, fs, src_ls, dst_ls,
                   idx, errs, notes, old_dir_list, old_file_list, new_dir_list,
                   new_file_list, last, hist, run, rm, call>>

\* lines 346-348: check_meta_ls(old_list, new_list) returns whatever its pairs do
\* (lines 240-246 catch every exception); the extended metadata it restores is not
\* part of the tree the copy works on, and is followed in MetaSpec
CheckMetaLs ==
    /\ pc = "meta"
    /\ pc' = "done"
    /\ UNCHANGED <<ATTEMPTS, compare, shallow, exclude, prog_cache, fs, src_ls, dst_ls,
                   idx, errs, notes, old_dir_list, old_file_list, new_dir_list,
                   new_file_list, old_list, new_list, last, hist, run, rm, call>>

\* What a later start of the program is given: the arguments of the run before,
\* or one of -a, -e and -r changed
RestartArgs ==
    {a \in [cap : CapArgs, ex : ExcludeArgs, reset : BOOLEAN] :
        Cardinality({k \in {"cap", "ex", "reset"} :
            CASE k = "cap" -> a.cap # ATTEMPTS
              [] k = "ex" -> <<PROG_PAT>> \o a.ex # exclude
              [] OTHER -> a.reset}) <= 1}

\* The program is started again on the same trees, with the ledger it left (or,
\* with -r, cleared: lines 298-300)
Restart ==
    /\ pc \in {"done", "crashed", "value_error"}
    /\ run.n < MaxRuns
    /\ \E a \in RestartArgs :
          /\ Begin(a.cap, compare, shallow, a.ex,
                   IF a.reset THEN cache_clear(prog_cache) ELSE prog_cache, fs, run.n + 1,
                   /\ pc = "done"
                   /\ ~a.reset
                   /\ <<a.cap, <<PROG_PAT>> \o a.ex>> = <<ATTEMPTS, exclude>>)
          /\ hist' = IF a.reset THEN [fails |-> [p \in SrcPaths |-> 0]] ELSE hist
    /\ UNCHANGED <<rm, call>>

Next ==
    \/ CpLsStep
    \/ LookupFails
    \/ FilesDone
    \/ DirsDone
    \/ RetryAgain
    \/ RetryBreak
    \/ FilterLists
    \/ CheckMetaLs
    \/ Restart

Spec == Init /\ [][Next]_vars

----------------------------------------------------------------------------
\* Observations the claims are stated with

Keys == {p \in SrcPaths : prog_cache[p] # None}

\* last describes a pair cp_ls got through (not a lookup that raised)
Processed == last.out \in {"skip", "ok", "raise"}

\* last describes pair idx of the call of cp_ls that is running or has just ended
JustYielded == Processed /\ idx >= 1 /\ idx <= Len(src_ls) /\ src_ls[idx] = last.src

\* the step is one of a run, not the start of the next run
InRun == ~(pc \in {"done", "crashed", "value_error"} /\ pc' = "files")

----------------------------------------------------------------------------
\* C1. Cap enforcement: a pair whose source has a record with attempts >= ATTEMPTS
\* is skipped and nothing else: /bin/cp is not invoked, the destination is neither
\* deleted nor created, clone_attrs is not run, the source is not appended to the
\* failure list, and the record is left as it was.
C1_CapSkip ==
    (Processed /\ last.pre # None /\ last.pre.attempts >= ATTEMPTS) =>
        /\ last.out = "skip"
        /\ ~last.cp
        /\ ~last.un
        /\ last.mk = "none"
        /\ last.cl = "no"
        /\ last.src \notin Range(errs)
        /\ prog_cache[last.src] = last.pre
        /\ fs[last.dst] = last.dpre

\* a pair is skipped at the limit although its destination is absent
C1_Witness == last.out = "skip" /\ last.dpre = NoEntry /\ last.pre.attempts >= ATTEMPTS

\* C2 (as stated). Whatever raises while a pair is processed, the ledger lookup
\* included, cp_ls goes on with the later pairs, the source is in the failure list
\* and the ledger holds a record for it.
C2_NoEscape ==
    ((last.out = "raise" /\ JustYielded) \/ last.out = "crash") =>
        /\ InCpLs
        /\ last.src \in Range(errs)
        /\ prog_cache[last.src] # None

\* C2, for the failures other than the lookup. Whatever raises inside the try of
\* lines 109-137 (a comparison, the deletion of the destination, the creation of
\* a directory, /bin/cp, clone_attrs, the deletion of the record), the pair is
\* yielded like any other, cp_ls goes on with the later pairs, the source is in
\* the failure list and the ledger holds a record for it.
C2_NoEscapeFromTry ==
    (last.out = "raise" /\ JustYielded) =>
        /\ InCpLs
        /\ Len(notes) = idx
        /\ last.src \in Range(errs)
        /\ prog_cache[last.src] # None

\* C3. Attempt counting: a record holds the number of failed attempts made for its
\* source since the record was created (1 after the first, one more after each
\* later one), over the passes of a run and over the runs that keep the ledger.
C3_AttemptsCountFailures ==
    \A p \in Keys : prog_cache[p].attempts = hist.fails[p]

\* the first pass of a later run fails on a source whose record an earlier run left
C3_Witness ==
    /\ run.n >= 2
    /\ pc = "files"
    /\ last.out = "raise"
    /\ last.pre # None
    /\ prog_cache[last.src].attempts = last.pre.attempts + 1

\* C4. Ledger monotonicity: within a run the attempts of a record never decrease;
\* a record goes away only when its pair succeeds (or is found copied) or when the
\* ledger is cleared at the start of a run; no record that comes after a deletion in
\* the same run holds fewer attempts than the one deleted; and a record that is at
\* the limit is not written again in that run.
C4_Step ==
    \A p \in SrcPaths :
        /\ (InRun /\ prog_cache[p] # None /\ prog_cache'[p] # None)
              => prog_cache'[p].attempts >= prog_cache[p].attempts
        /\ (InRun /\ prog_cache[p] # None /\ prog_cache'[p] = None)
              => (last'.src = p /\ last'.out = "ok" /\ idx' = idx + 1)
        /\ (InRun /\ prog_cache'[p] # None)
              => prog_cache'[p].attempts >= run'.delAt[p]
        /\ (InRun /\ prog_cache[p] # None /\ prog_cache[p].attempts >= ATTEMPTS)
              => prog_cache'[p] = prog_cache[p]

C4_Monotonic == [][C4_Step]_vars

\* a record was deleted at one attempt and another record has grown to two
C4_Witness ==
    /\ \E p \in SrcPaths : run.delAt[p] >= 1 /\ prog_cache[p] = None
    /\ \E p \in Keys : prog_cache[p].attempts >= 2

\* C5. A source has a record only if its most recent processing that was not a
\* skip raised; a pair that ends without an exception and without the skip leaves
\* no record for its source.
C5_RecordMeansFailure ==
    /\ \A p \in Keys : hist.fails[p] >= 1
    /\ (last.out = "ok" => prog_cache[last.src] = None)

\* a pair with a record has just succeeded, and its record is gone
C5_Witness == last.out = "ok" /\ last.pre # None /\ last.src \notin Keys

----------------------------------------------------------------------------
\* The program with its scheduling: __main__ is one thread that always takes its
\* next step; the environment owes nothing (no lookup has to fail, no run has
\* to be started again)

\* The ledgers an earlier run may have left, under any cap: empty, or one record
Ledgers ==
    { [p \in SrcPaths |-> IF p # q \/ n = 0 THEN None
                          ELSE [src |-> p, dst |-> DstOf(p), attempts |-> n]] :
        q \in SrcPaths, n \in 0..MaxCap }

\* a run with -c that finds any of these ledgers and nothing at the destination
LiveInit ==
    Started(CapArgs, {<<TRUE, FALSE>>}, {<<>>}, Ledgers, {[p \in DstPaths |-> NoEntry]})

MainStep ==
    \/ CpLsStep
    \/ FilesDone
    \/ DirsDone
    \/ RetryAgain
    \/ RetryBreak
    \/ FilterLists
    \/ CheckMetaLs

LiveNext ==
    \/ MainStep
    \/ LookupFails

LiveSpec == LiveInit /\ [][LiveNext]_vars /\ WF_vars(MainStep)

\* C6. The retry loop of lines 323-334 terminates, whatever the ledger holds,
\* whatever the cap and however the copy operations fail: it makes at most ATTEMPTS
\* passes (ATTEMPTS >= 1), and it reaches its break (a lookup of line 107 that
\* raises ends the run from within the loop).
C6_RetryTerminates ==
    /\ [](pc = "retry" => run.passes <= ATTEMPTS)
    /\ (pc = "retry" ~> pc \in {"filter", "crashed"})

\* the loop has reached its break after as many passes as the cap allows, more
\* than one, and left a source that failed every time
C6_Witness ==
    /\ pc = "filter"
    /\ ATTEMPTS >= 2
    /\ run.passes = ATTEMPTS
    /\ \E p \in Keys : prog_cache[p].attempts >= ATTEMPTS

Enumerated == old_file_list \o old_dir_list

Remapped == new_file_list \o new_dir_list

KeysEnumerated ==
    \A p \in Keys : p \in Range(Enumerated) /\ prog_cache[p].dst = DstOf(p)

Unrecorded(p) == p \notin Keys

\* C8. When every key of the ledger after the retry loop is an enumerated source
\* whose record holds its remapped destination, the filter of lines 337-342
\* completes, and the lists for check_meta_ls are the enumerated sources without a
\* record, in their order, each with its own destination at the same index.
C8_FilterBeforeMeta ==
    (pc \in {"meta", "value_error"} /\ KeysEnumerated) =>
        /\ pc = "meta"
        /\ old_list = SelectSeq(Enumerated, Unrecorded)
        /\ Len(new_list) = Len(old_list)
        /\ \A i \in 1..Len(old_list) :
              /\ new_list[i] = DstOf(old_list[i])
              /\ \E j \in 1..Len(Enumerated) :
                    Enumerated[j] = old_list[i] /\ Remapped[j] = new_list[i]
        /\ Keys \cap Range(old_list) = {}

\* the filter has left out a source that failed up to the cap and kept others
C8_Witness ==
    /\ pc = "meta"
    /\ KeysEnumerated
    /\ \E p \in Keys : prog_cache[p].attempts >= ATTEMPTS
    /\ Len(old_list) >= 2

\* the failures notes[i] carries are those of the notification before it, and the
\* source of pair i after them when it raised
Cumulative(i) ==
    notes[i].errs = (IF i = 1 THEN <<>> ELSE notes[i - 1].errs)
                        \o (IF notes[i].raised THEN <<src_ls[i]>> ELSE <<>>)

\* C9 (as stated). A call of cp_ls on n pairs yields n notifications, one after
\* each pair it was given, numbered 1..n, each with the sources that raised so far.
C9_Notifications ==
    /\ (InCpLs \/ pc = "crashed") => Len(notes) = idx
    /\ (InCpLs \/ pc = "crashed") =>
          \A i \in 1..Len(notes) : notes[i].idx = i /\ Cumulative(i)
    /\ ((InCpLs /\ idx = NPairs) \/ pc = "crashed") => Len(notes) = NPairs

\* C9, for the calls no lookup ends: the notifications yielded so far are one per
\* processed pair, numbered in order, each with the sources that raised so far.
C9_NotificationsSoFar ==
    InCpLs =>
        /\ Len(notes) = idx
        /\ \A i \in 1..Len(notes) : notes[i].idx = i /\ Cumulative(i)
        /\ (idx = NPairs => Len(notes) = Len(src_ls))

----------------------------------------------------------------------------
\* change_parent on its own: both forms applied to the same roots and paths

\* the roots, with and without a trailing separator, absolute and relative
RemapRoots(r) == { <<"/", r>>, <<"/", r, "/">>, <<r>> }

\* what a path under a root is made of
RelPaths == { <<"f">>, <<"d", "/", "f">> }

\* the lists of at most n paths under the root old
RECURSIVE PathLists(_, _)
PathLists(old, n) ==
    IF n = 0 THEN { <<>> }
    ELSE PathLists(old, n - 1)
            \cup { Append(l, join(old, r)) : l \in {k \in PathLists(old, n - 1) : Len(k) = n - 1},
                                              r \in RelPaths }

\* the part of path after the root old, without the separator
Remainder(old, path) ==
    LET rest == SliceFrom(path, Len(old))
    IN IF startswith(rest, "/") THEN Tail(rest) ELSE rest

Idle ==
    /\ ATTEMPTS = 1
    /\ compare = FALSE
    /\ shallow = FALSE
    /\ exclude = <<PROG_PAT>>
    /\ prog_cache = [p \in SrcPaths |-> None]
    /\ fs = [p \in DstPaths |-> NoEntry]
    /\ pc = "remap"
    /\ src_ls = <<>>
    /\ dst_ls = <<>>
    /\ idx = 0
    /\ errs = <<>>
    /\ notes = <<>>
    /\ old_dir_list = <<>>
    /\ old_file_list = <<>>
    /\ new_dir_list = <<>>
    /\ new_file_list = <<>>
    /\ old_list = <<>>
    /\ new_list = <<>>
    /\ last = NoLast
    /\ hist = [fails |-> [p \in SrcPaths |-> 0]]
    /\ run = NoRun(1, FALSE)

RemapInit ==
    /\ Idle
    /\ call = NoCall
    /\ \E old \in RemapRoots("s"), new \in RemapRoots("t") :
       \E paths \in PathLists(old, MaxPaths) \ { <<>> } :
          rm = [NoRm EXCEPT !.old = old, !.new = new, !.paths = paths]

\* change_parent(old, new, path) with a str
RemapStr ==
    /\ ~rm.str_done
    /\ rm' = [rm EXCEPT !.one = change_parent(rm.old, rm.new, rm.paths[1], TRUE),
                        !.str_done = TRUE]
    /\ UNCHANGED <<mainVars, call>>

\* change_parent(old, new, paths) with a list
RemapLs ==
    /\ ~rm.ls_done
    /\ rm' = [rm EXCEPT !.ls = change_parent(rm.old, rm.new, rm.paths, FALSE),
                        !.ls_done = TRUE]
    /\ UNCHANGED <<mainVars, call>>

RemapNext ==
    \/ RemapStr
    \/ RemapLs

RemapSpec == RemapInit /\ [][RemapNext]_vars

\* C10 (as stated). change_parent returns new joined with the remainder of the
\* path after old, without a leading separator, in both forms: the result for a
\* str is the one element of the result for the list of that str, and the result
\* for a list has the length of the list and the remap of path i at index i.
C10_RemapUniform ==
    /\ rm.ls_done =>
          /\ Len(rm.ls) = Len(rm.paths)
          /\ \A i \in 1..Len(rm.paths) :
                rm.ls[i] = join(rm.new, Remainder(rm.old, rm.paths[i]))
    /\ rm.str_done => rm.one = join(rm.new, Remainder(rm.old, rm.paths[1]))
    /\ (rm.str_done /\ rm.ls_done) =>
          rm.one = change_parent(rm.old, rm.new, <<rm.paths[1]>>, FALSE)[1]

----------------------------------------------------------------------------
\* ls_dir on its own: any tree of three levels under the root, any patterns

\* the paths a tree under SRC may hold: two directories, one in the other, and files
UD == <<"/", "s", "/", "d">>
UE == <<"/", "s", "/", "d", "/", "e">>
UF == <<"/", "s", "/", "d", "/", "f">>
UG == <<"/", "s", "/", "d", "/", "e", "/", "g">>
UH == <<"/", "s", "/", "h">>

UDirs == {UD, UE}

\* the trees: the sets of paths that hold the parent of every path they hold
Trees ==
    {t \in SUBSET {UD, UE, UF, UG, UH} :
        /\ (UE \in t \/ UF \in t) => UD \in t
        /\ UG \in t => UE \in t}

\* the order in which os.scandir reports the names
NameOrder == << <<"d">>, <<"e">>, <<"f">>, <<"g">>, <<"h">> >>

RECURSIVE scandir(_, _, _, _)
\* the names of order under top in the tree t that are directories (or are not)
scandir(t, top, order, want_dirs) ==
    IF order = <<>> THEN <<>>
    ELSE (IF join(top, Head(order)) \in t /\ (join(top, Head(order)) \in UDirs) = want_dirs
          THEN <<Head(order)>> ELSE <<>>)
         \o scandir(t, top, Tail(order), want_dirs)

RECURSIVE walk(_, _)
RECURSIVE walk_each(_, _, _)
\* os.walk(top), top-down: the caller does not prune dirs, so every directory is entered
walk(t, top) ==
    << [root |-> top, dirs |-> scandir(t, top, NameOrder, TRUE),
        files |-> scandir(t, top, NameOrder, FALSE)] >>
        \o walk_each(t, top, scandir(t, top, NameOrder, TRUE))

walk_each(t, top, dirs) ==
    IF dirs = <<>> THEN <<>>
    ELSE walk(t, join(top, Head(dirs))) \o walk_each(t, top, Tail(dirs))

\* the patterns: a directory by name, everything beneath it, a file by name
PatArgs ==
    { <<"*", "/", "d">>, <<"*", "/", "e">>, <<"/", "s", "/", "d", "*">>,
      <<"*", "/", "h">>, <<"*", "g">> }

\* the lists of at most n patterns
RECURSIVE PatLists(_)
PatLists(n) ==
    IF n = 0 THEN { <<>> }
    ELSE PatLists(n - 1)
            \cup { Append(l, pat) : l \in {k \in PatLists(n - 1) : Len(k) = n - 1},
                                    pat \in PatArgs }

EnumInit ==
    /\ Idle
    /\ rm = NoRm
    /\ \E t \in Trees, pats \in PatLists(MaxPats) :
          call = [fn |-> "ls_dir", tree |-> t, exclusions |-> pats,
                  dirs |-> <<>>, files |-> <<>>, done |-> FALSE]

\* lines 152-181: ls_dir(SRC, exclusions)
LsDirCall ==
    /\ ~call.done
    /\ \E ls \in {ls_dir_loop(walk(call.tree, SRC), <<>>, <<>>, call.exclusions)} :
          call' = [call EXCEPT !.dirs = ls[1], !.files = ls[2], !.done = TRUE]
    /\ UNCHANGED <<mainVars, rm>>

EnumNext == LsDirCall

EnumSpec == EnumInit /\ [][EnumNext]_vars

\* the directories of the tree that path lies beneath
Above(t, path) ==
    {q \in t \cap UDirs : Len(q) < Len(path) /\ SubSeq(path, 1, Len(q) + 1) = q \o <<"/">>}

Listed == Range(call.dirs) \cup Range(call.files)

\* C11 (as stated). The lists ls_dir returns hold no path that matches a pattern
\* and no path beneath a directory that matches a pattern, at any depth.
C11_SubtreeExcluded ==
    call.done =>
        \A p \in Listed :
            /\ ~exclude_path(p, call.exclusions)
            /\ \A q \in Above(call.tree, p) : ~exclude_path(q, call.exclusions)

\* C11, one level deep: no listed path matches a pattern, and none has a parent
\* that matches a pattern.
C11_EntryAndParentExcluded ==
    call.done =>
        \A p \in Listed :
            /\ ~exclude_path(p, call.exclusions)
            /\ \A q \in Above(call.tree, p) :
                  q = dirname(p) => ~exclude_path(q, call.exclusions)

----------------------------------------------------------------------------
\* cmp on its own: any two entries, in both orders, in both modes

CX == <<"/", "x">>
CY == <<"/", "y">>
CXF == join(CX, <<"f">>)
CYF == join(CY, <<"f">>)

\* what a compared path may be: a file, a directory, a link to either, a dangling link
CmpEntries ==
    {E("file", "file", 0, d, m) : d \in 0..2, m \in 0..1}
        \cup {E("link", "file", t, d, 0) : t \in 0..1, d \in 0..1}
        \cup {E("link", "dir", t, 0, 0) : t \in 0..1}
        \cup {E("link", "none", t, 0, 0) : t \in 0..1}
        \cup {E("dir", "dir", 0, d, 0) : d \in 0..1}

\* what a directory may hold under the name f
CmpChildren == {NoEntry, E("file", "file", 0, 0, 0), E("file", "file", 0, 2, 0)}

CmpInit ==
    /\ Idle
    /\ rm = NoRm
    /\ \E x \in CmpEntries, y \in CmpEntries, sh \in BOOLEAN :
       \E xf \in (IF isdir(x) THEN CmpChildren ELSE {NoEntry}),
          yf \in (IF isdir(y) THEN CmpChildren ELSE {NoEntry}) :
          call = [fn |-> "cmp", shallow |-> sh,
                  g |-> (CX :> x) @@ (CY :> y) @@ (CXF :> xf) @@ (CYF :> yf),
                  fwd |-> <<>>, bwd |-> <<>>]

\* lines 79-94: cmp(x, y, shallow)
CmpCall ==
    /\ call.fwd = <<>>
    /\ call' = [call EXCEPT !.fwd = <<cmp(call.g, CX, CY, call.shallow)>>]
    /\ UNCHANGED <<mainVars, rm>>

\* lines 79-94: cmp(y, x, shallow)
CmpSwapped ==
    /\ call.bwd = <<>>
    /\ call' = [call EXCEPT !.bwd = <<cmp(call.g, CY, CX, call.shallow)>>]
    /\ UNCHANGED <<mainVars, rm>>

CmpNext == CmpCall \/ CmpSwapped

CmpSpec == CmpInit /\ [][CmpNext]_vars

\* C12. Whatever the two entries are and whichever the mode, cmp(x, y, shallow)
\* and cmp(y, x, shallow) return the same result.
C12_CmpSymmetric ==
    (call.fwd # <<>> /\ call.bwd # <<>>) => call.fwd = call.bwd

\* C12: both orders have been compared, on a link and a file it points to the like
\* of, and on two files a shallow comparison cannot tell apart
C12_Witness ==
    /\ call.fwd = <<TRUE>> /\ call.bwd = <<TRUE>>
    /\ call.g[CX].kind # call.g[CY].kind
    /\ call.shallow

\* C13 (as stated). cmp reports equivalence only for two entries of the same kind,
\* and reports non-equivalence for every pair whose kinds differ.
C13_KindMismatchDiffers ==
    call.fwd # <<>> =>
        /\ call.fwd = <<TRUE>> => call.g[CX].kind = call.g[CY].kind
        /\ call.g[CX].kind # call.g[CY].kind => call.fwd = <<FALSE>>

\* C13 (amended). Two symlinks are equivalent exactly when their targets are the
\* same string. Otherwise a symlink stands for what it points to: the entries are
\* equivalent exactly when both resolve to files that filecmp finds equal, or both
\* resolve to directories between which dircmp finds no difference; entries that
\* resolve to different kinds, or to nothing, are not equivalent.
C13_KindRule ==
    call.fwd # <<>> =>
        LET x == call.g[CX]
            y == call.g[CY]
            both == x.kind = "link" /\ y.kind = "link"
        IN call.fwd[1] =
              \/ both /\ x.tgt = y.tgt
              \/ ~both /\ x.res = "file" /\ y.res = "file" /\ filecmp(x, y, call.shallow)
              \/ ~both /\ x.res = "dir" /\ y.res = "dir" /\ dircmp_same(call.g, CX, CY)

\* C13: a symlink to a file was compared with a regular file of the same content
\* and found equivalent
C13_Witness ==
    /\ call.fwd = <<TRUE>>
    /\ call.g[CX].kind = "link" /\ call.g[CX].res = "file"
    /\ call.g[CY].kind = "file"
    /\ ~call.shallow

----------------------------------------------------------------------------
\* What cp_ls does to the destination of a pair

\* the destination of the last pair as line 129 found it
DstAtCreate == IF last.un THEN NoEntry ELSE last.dpre

\* C14. /bin/cp is invoked for a pair only when its destination does not exist and
\* is not a dangling symlink, and its source is not a directory; a source that is a
\* directory is made as an empty directory and never handed to /bin/cp.
C14_CpOnlyWhenAbsent ==
    JustYielded =>
        /\ last.cp => /\ ~exists(DstAtCreate) /\ ~islink(DstAtCreate)
                      /\ ~isdir(srcEntry(last.src))
        /\ isdir(srcEntry(last.src)) => ~last.cp /\ last.mk \in {"none", "dir"}
        /\ last.mk = "dir" => isdir(srcEntry(last.src)) /\ DstAtCreate.kind = "none"

\* C14: /bin/cp has copied a file to a destination that was not there, and an
\* existing destination has been left alone
C14_Witness ==
    /\ JustYielded /\ last.cp /\ last.out = "ok" /\ last.mk = "cp"
    /\ \E p \in SrcPaths : stat(fs, DstOf(p)).kind = "dir"

\* one pair of cp_ls is processed in this step
PairStep == InCpLs /\ idx' = idx + 1

\* C15. cp_ls deletes a destination only when comparison is enabled, the
\* destination is a file or a symlink (never a directory), and cmp in the
\* configured mode reports it not equivalent to the source.
C15_Step ==
    (PairStep /\ last'.un) =>
        /\ compare
        /\ isfile(stat(fs, last'.dst)) \/ islink(stat(fs, last'.dst))
        /\ stat(fs, last'.dst).kind # "dir"
        /\ ~cmp(fs, last'.src, last'.dst, shallow)
        /\ last'.dpre = stat(fs, last'.dst)

C15_DeleteOnlyOnMismatch == [][C15_Step]_vars

\* C15: a destination file that differs from the source has been deleted
C15_Witness ==
    JustYielded /\ last.un /\ isfile(last.dpre) /\ compare /\ last.out = "ok"

----------------------------------------------------------------------------
\* C16. For a pair that is not skipped at the limit, the record of the source is
\* deleted only after clone_attrs has run for the pair and returned, on the normal
\* path and on the path of a past false failure alike; that path is taken whenever
\* a record exists and the byte-exact comparison finds the pair equivalent,
\* whatever the comparison flag, and invokes neither unlink nor /bin/cp; when
\* clone_attrs raises, the record is not deleted but created or incremented.
C16_Step ==
    (PairStep /\ last'.out # "skip") =>
        LET src == last'.src
            pre == cache_get(prog_cache, src)
            post == cache_get(prog_cache', src)
        IN /\ last'.pre = pre
           /\ (pre # None /\ post = None) => last'.cl = "returned" /\ last'.out = "ok"
           /\ last'.out = "ok" => last'.cl = "returned" /\ post = None
           /\ last'.cl = "raised" =>
                 /\ last'.out = "raise"
                 /\ post # None
                 /\ post.attempts = (IF pre = None THEN 1 ELSE pre.attempts + 1)
           /\ last'.ff =>
                 /\ pre # None
                 /\ last'.cl # "no" /\ ~last'.cp /\ ~last'.un /\ last'.mk = "none"
           /\ (pre # None /\ cmp(fs, src, last'.dst, FALSE)) =>
                 \/ last'.ff
                 \/ last'.out = "raise" /\ last'.cl = "no" /\ ~last'.cp /\ ~last'.un

C16_DeleteAfterClone == [][C16_Step]_vars

\* C16: with comparison off, a pair with a record was found copied, its
\* attributes were cloned and its record was deleted
C16_Witness ==
    /\ JustYielded /\ ~compare
    /\ last.ff /\ last.out = "ok" /\ last.cl = "returned"
    /\ last.pre # None /\ cache_get(prog_cache, last.src) = None

----------------------------------------------------------------------------
\* the retry loop of this run has reached its break
Broke == pc \in {"filter", "meta", "done", "value_error"}

\* C17 (as stated). When the retry loop breaks no record is below the limit, and
\* in a run that found an empty ledger and in which nothing failed the ledger is
\* empty and /bin/cp was invoked exactly once on every enumerated file.
C17_EveryFileCopiedOnce ==
    Broke =>
        /\ \A p \in Keys : prog_cache[p].attempts >= ATTEMPTS
        /\ run.clean =>
              /\ Keys = {}
              /\ \A p \in Range(old_file_list) : run.cps[p] = 1

\* C17 (amended). When the retry loop breaks no record is below the limit. In a
\* run that found an empty ledger and in which nothing failed, the ledger is empty,
\* the retry loop made one pass over nothing, /bin/cp was invoked at most once on
\* every enumerated file and never on a directory entry, and, when the destination
\* was empty at the start, exactly once on every enumerated file.
C17_RetryPostcondition ==
    Broke =>
        /\ \A p \in Keys : prog_cache[p].attempts >= ATTEMPTS
        /\ run.clean =>
              /\ Keys = {}
              /\ run.passes = 1
              /\ \A p \in Range(old_file_list) : run.cps[p] <= 1
              /\ \A p \in Range(old_dir_list) : run.cps[p] = 0
              /\ run.bare => \A p \in Range(old_file_list) : run.cps[p] = 1

\* C17: the loop has broken after more than one pass, with a record at the limit
C17_Witness ==
    /\ Broke /\ run.passes >= 2
    /\ \E p \in Keys : prog_cache[p].attempts = ATTEMPTS
    /\ \E p \in SrcPaths : p \notin Keys /\ hist.fails[p] = 0 /\ run.delAt[p] > 0

\* C17: a run on an empty ledger and an empty destination in which nothing
\* failed has copied its file once
C17_CleanRun ==
    Broke /\ run.clean /\ run.bare /\ old_file_list # <<>> /\ run.cps[PF] = 1

----------------------------------------------------------------------------
\* check_meta_ls on its own: any list of pairs, any destination kinds, any
\* metadata, any exception at any pair

\* the lists __main__ may hand over: old_list after the filter
MetaLists == { <<>>, <<PF>>, <<PD>>, <<PK>>, <<PF, PD>>, <<PF, PK>>, <<PD, PK>>,
               <<PF, PD, PK>> }

\* the destination of p as a regular entry of the source's kind, or as a link
MetaEntry(p, link) ==
    IF link THEN E("link", srcEntry(p).res, 0, 0, 0)
    ELSE E(srcEntry(p).res, srcEntry(p).res, 0, 0, 0)

\* what OSXMetaData may raise: nothing, a PermissionError or another Exception,
\* while the metadata is read or while it is restored
MetaEnvs == {"none", "PermissionError_read", "Exception_read",
             "PermissionError_restore", "Exception_restore"}

\* the exception of an environment
exc_of(env) ==
    CASE env \in {"PermissionError_read", "PermissionError_restore"} -> "PermissionError"
      [] env \in {"Exception_read", "Exception_restore"} -> "Exception"
      [] OTHER -> "none"

\* the mutant of caught: only the PermissionError is caught
caught_permission_only(exc) == exc = "PermissionError"

\* lines 243-246: except PermissionError, except Exception
caught(exc) == exc \in {"PermissionError", "Exception"}

\* lines 211-233: check_meta(src, dst) on the metadata m of the destinations
\* ("same": the source's; "other"; "partial": restored in part). out is what
\* the call did: "same" (nothing to restore), "restored", or the exception raised.
check_meta(m, src, dst, env) ==
    IF env \in {"PermissionError_read", "Exception_read"}
    THEN [meta |-> m, out |-> exc_of(env)]
    ELSE IF m[dst] = "same"
    THEN [meta |-> m, out |-> "same"]
    ELSE IF env \in {"PermissionError_restore", "Exception_restore"}
    THEN [meta |-> [m EXCEPT ![dst] = "partial"], out |-> exc_of(env)]
    ELSE [meta |-> [m EXCEPT ![dst] = "same"], out |-> "restored"]

\* lines 240-246: one pair of check_meta_ls
check_meta_ls_pair(g, m, src, dst, env) ==
    IF islink(stat(g, src)) \/ islink(stat(g, dst))
    THEN [meta |-> m, out |-> "link", escaped |-> FALSE]
    ELSE Bind(check_meta(m, src, dst, env),
              LAMBDA r : [meta |-> r.meta, out |-> r.out,
                          escaped |-> r.out \in {"PermissionError", "Exception"}
                                        /\ ~caught(r.out)])

MetaInit ==
    /\ Idle
    /\ rm = NoRm
    /\ \E old \in MetaLists :
       \E links \in [Range(old) -> BOOLEAN], m \in [Range(old) -> {"same", "other"}] :
          call = [fn |-> "check_meta_ls", old |-> old,
                  new |-> change_parent(SRC, DST, old, FALSE),
                  g |-> [p \in DstPaths |->
                            IF \E q \in Range(old) : DstOf(q) = p
                            THEN MetaEntry(CHOOSE q \in Range(old) : DstOf(q) = p,
                                           links[CHOOSE q \in Range(old) : DstOf(q) = p])
                            ELSE NoEntry],
                  meta0 |-> [p \in DstPaths |->
                               IF \E q \in Range(old) : DstOf(q) = p
                               THEN m[CHOOSE q \in Range(old) : DstOf(q) = p]
                               ELSE "same"],
                  meta |-> [p \in DstPaths |->
                               IF \E q \in Range(old) : DstOf(q) = p
                               THEN m[CHOOSE q \in Range(old) : DstOf(q) = p]
                               ELSE "same"],
                  i |-> 0, log |-> <<>>, escaped |-> FALSE]

\* lines 239-247: the next pair of check_meta_ls
MetaStep ==
    /\ call.i < Len(call.old)
    /\ ~call.escaped
    /\ \E env \in MetaEnvs :
       \E r \in {check_meta_ls_pair(call.g, call.meta, call.old[call.i + 1],
                                    call.new[call.i + 1], env)} :
          call' = [call EXCEPT !.meta = r.meta,
                               !.i = IF r.escaped THEN @ ELSE @ + 1,
                               !.escaped = r.escaped,
                               !.log = Append(@, [idx |-> call.i + 1,
                                                  src |-> call.old[call.i + 1],
                                                  dst |-> call.new[call.i + 1],
                                                  out |-> r.out])]
    /\ UNCHANGED <<mainVars, rm>>

MetaNext == MetaStep

MetaSpec == MetaInit /\ [][MetaNext]_vars

\* C18. check_meta_ls visits every pair of its lists once and in order; an
\* exception raised while one pair is reconciled is caught at that pair and keeps
\* no later pair from being reconciled; a pair whose source or destination is a
\* symlink is never reconciled.
C18_MetaBatch ==
    /\ Len(call.log) = call.i
    /\ ~call.escaped
    /\ call.i < Len(call.old) => ENABLED MetaStep
    /\ \A k \in 1..Len(call.log) :
          LET e == call.log[k]
              link == islink(stat(call.g, e.src)) \/ islink(stat(call.g, e.dst))
          IN /\ e.idx = k /\ e.src = call.old[k] /\ e.dst = call.new[k]
             /\ link <=> e.out = "link"
             /\ link => call.meta[e.dst] = call.meta0[e.dst]
             /\ e.out = "restored" => call.meta[e.dst] = "same"
             /\ e.out = "same" => call.meta0[e.dst] = "same"
    /\ \A p \in DstPaths :
          call.meta[p] # call.meta0[p] =>
              \E k \in 1..Len(call.log) :
                  call.log[k].dst = p /\ call.log[k].out # "link"

\* C18: an exception at the first pair was caught, the second pair was
\* reconciled, and the third, a symlink, was passed over
C18_Witness ==
    /\ call.i = 3
    /\ call.log[1].out \in {"PermissionError", "Exception"}
    /\ call.log[2].out = "restored"
    /\ call.log[3].out = "link"

----------------------------------------------------------------------------
\* clone_attrs on its own: any limit, any attributes, any file system behaviour

\* the minimal attribute set of the destination: the source's, or another
AttrSame == 0
AttrOther == 1

\* what the file system does in one cycle: the write takes effect, the write is
\* accepted but the read-back shows the old values (for good, or until the write
\* lands after the cycle), the write is refused (success is false), or reading
\* the attributes fails
CloneEnvs == {"takes", "stale", "late", "refused", "read_fails"}

\* lines 43-62: clone() on the destination's attributes d. ret is the value
\* returned, or "raise"; wrote tells whether setAttributes (or copystat) was called.
clone(d, follow_symlinks, env) ==
    IF follow_symlinks
    THEN IF env = "read_fails" THEN [dst |-> d, ret |-> "raise", wrote |-> FALSE]
         ELSE IF d = AttrSame THEN [dst |-> d, ret |-> "True", wrote |-> FALSE]
         ELSE IF env = "refused" THEN [dst |-> d, ret |-> "raise", wrote |-> TRUE]
         ELSE IF env = "takes" THEN [dst |-> AttrSame, ret |-> "True", wrote |-> TRUE]
         ELSE IF env = "late" THEN [dst |-> AttrSame, ret |-> "False", wrote |-> TRUE]
         ELSE [dst |-> d, ret |-> "False", wrote |-> TRUE]
    ELSE IF env \in {"refused", "read_fails"}
         THEN [dst |-> d, ret |-> "raise", wrote |-> FALSE]
         ELSE [dst |-> d, ret |-> "True", wrote |-> TRUE]

\* the mutant of in_range: one cycle more than the limit
in_range_inclusive(i, limit) == i <= limit

\* line 65: for i in range(limit)
in_range(i, limit) == i < limit

CloneInit ==
    /\ Idle
    /\ rm = NoRm
    /\ \E limit \in 0..MaxLimit, follow \in BOOLEAN, d \in {AttrSame, AttrOther} :
          call = [fn |-> "clone_attrs", limit |-> limit, follow_symlinks |-> follow,
                  dst |-> d, i |-> 0, log |-> <<>>, state |-> "running",
                  result |-> "unset"]

\* lines 65-67: one cycle of the loop
CloneCycle ==
    /\ call.state = "running"
    /\ in_range(call.i, call.limit)
    /\ \E env \in CloneEnvs :
       \E r \in {clone(call.dst, call.follow_symlinks, env)} :
          call' = [call EXCEPT !.dst = r.dst,
                               !.i = @ + 1,
                               !.log = Append(@, [ret |-> r.ret, wrote |-> r.wrote,
                                                  before |-> call.dst, env |-> env]),
                               !.state = CASE r.ret = "raise" -> "raised"
                                           [] r.ret = "True" -> "returned"
                                           [] OTHER -> "running",
                               !.result = IF r.ret = "True" THEN "None" ELSE @]
    /\ UNCHANGED <<mainVars, rm>>

\* line 65, the loop is exhausted: the function ends without a return statement
CloneGivesUp ==
    /\ call.state = "running"
    /\ ~in_range(call.i, call.limit)
    /\ call' = [call EXCEPT !.state = "returned", !.result = "None"]
    /\ UNCHANGED <<mainVars, rm>>

CloneNext == CloneCycle \/ CloneGivesUp

CloneSpec == CloneInit /\ [][CloneNext]_vars

----------------------------------------------------------------------------
\* C20 (as stated). Whenever cp_ls creates a destination that was absent, the
\* entry created is of the source's kind: a directory is made only for a source
\* that is itself a directory, and a source file or symlink, a symlink to a
\* directory included, is created by /bin/cp and never as a real directory.
C20_KindPreserved ==
    (JustYielded /\ last.mk # "none") =>
        /\ stat(fs, last.dst).kind = srcEntry(last.src).kind
        /\ last.mk = "dir" => srcEntry(last.src).kind = "dir"
        /\ srcEntry(last.src).kind \in {"file", "link"} => last.mk = "cp"

\* C20, for the sources that are not symlinks to directories: the entry created
\* is of the source's kind, a directory by makedirs and a file by /bin/cp.
C20_KindPreservedButDirLinks ==
    (JustYielded /\ last.mk # "none" /\ ~(islink(srcEntry(last.src)) /\ isdir(srcEntry(last.src)))) =>
        /\ stat(fs, last.dst).kind = srcEntry(last.src).kind
        /\ last.mk = "dir" <=> srcEntry(last.src).kind = "dir"

====
